---- MODULE Spec2Model ----
(***************************************************************************)
(* Model of skills/velmios-lib/assets/quick_start_example.py: a FastAPI    *)
(* application with three routes, each declaring an authentication         *)
(* dependency of velmios.core.security that is solved before the route     *)
(* body runs.  Requests are handled concurrently: every request is a       *)
(* little process (received -> dependency solved -> endpoint called), and  *)
(* the steps of different requests interleave freely.                      *)
(***************************************************************************)
EXTENDS Integers, FiniteSets, TLC

\* ------------------------------------------------------------------ bounds

\* Number of request slots the server handles concurrently.
NumRequests == 2
\* Identifiers (admin, customer, system ids and realm ids) are 1..MaxId.
MaxId == 2

Requests == 1..NumRequests
Ids == 1..MaxId

\* ------------------------------------------------- values of the library

\* Python's None; a record, so that it compares with every other value.
None == [none |-> TRUE]

\* The exception an attribute access on None raises inside an endpoint.
Raised == [raised |-> "AttributeError"]

ADMIN == "ADMIN"
CUSTOMER == "CUSTOMER"
SYSTEM == "SYSTEM"
AuthenticationPersona == {ADMIN, CUSTOMER, SYSTEM}

\* OAuth2 scopes a principal's credentials may carry.
SyncExecute == "my_service.sync:execute"
SyncRead == "my_service.sync:read"

AdminRoles == {"admin"}
CustomerRoles == {"customer"}
Emails == {"admin@example.org"}

Admins == [id : Ids, role : AdminRoles, email : Emails]
\* Every customer and every system lives in one realm, whose id differs from
\* its own.
RealmOf(id) == (id % MaxId) + 1
Customers == { [id |-> i, role |-> rl, realm_id |-> RealmOf(i)] : i \in Ids, rl \in CustomerRoles }
Systems == [id : Ids]

\* AuthenticationContext: persona, realm id, and the one sub-entity the
\* persona selects; scopes are the OAuth2 scopes granted to the principal.
\* The realm of a customer's context is the customer's own realm; user
\* principals are given the sync scope too, system principals may lack it.
AdminContexts ==
    { [persona |-> ADMIN, realm_id |-> rl, admin |-> a, customer |-> None,
       system |-> None, scopes |-> {SyncExecute}] : rl \in Ids, a \in Admins }

CustomerContexts ==
    { [persona |-> CUSTOMER, realm_id |-> c.realm_id, admin |-> None,
       customer |-> c, system |-> None, scopes |-> {SyncExecute}] : c \in Customers }

SystemContexts ==
    { [persona |-> SYSTEM, realm_id |-> RealmOf(s.id), admin |-> None, customer |-> None,
       system |-> s, scopes |-> sc] :
         s \in Systems, sc \in {{SyncRead}, {SyncExecute, SyncRead}} }

AuthenticationContext == AdminContexts \cup CustomerContexts \cup SystemContexts

\* What a request carries: the principal its credentials authenticate as
\* (the context the library builds for it), or None when unauthenticated.
Callers == AuthenticationContext \cup {None}

\* str() of an identifier (a UUID value) and of an e-mail address (a str).
str(x) == ToString(x)
str_email(e) == e

persona_is(auth, persona) == auth.persona = persona

\* ------------------------------------------------------- the dependencies

DependsAuthorizedPersona(allowed) == [gate |-> "persona", allowed |-> allowed]
DependsSystemHasScope(required_scope) == [gate |-> "scope", required_scope |-> required_scope]

\* Solving a dependency for a caller: the AuthenticationContext, or None
\* when access is denied.
Resolve(dep, caller) ==
    IF caller = None THEN None
    ELSE IF dep.gate = "persona"
         THEN IF caller.persona \in dep.allowed THEN caller ELSE None
         ELSE IF caller.persona = SYSTEM /\ dep.required_scope \in caller.scopes
              THEN caller ELSE None

\* ------------------------------------------------------------ endpoints

\* Attribute access on a sub-entity: raises when the sub-entity is None.
Populated(entity) == entity # None

get_my_resource(auth) ==
    [realm_id |-> str(auth.realm_id), persona |-> auth.persona]

\* Mutant: the context's realm id is returned as the system id.
sync_data_realm_as_id(auth) ==
    IF Populated(auth.system)
    THEN [system_id |-> str(auth.realm_id)]
    ELSE Raised

sync_data(auth) ==
    IF Populated(auth.system)
    THEN [system_id |-> str(auth.system.id)]
    ELSE Raised

\* Mutant: the persona test selects the wrong branch.
get_me_swapped(auth) ==
    IF persona_is(auth, CUSTOMER)
    THEN IF Populated(auth.admin)
         THEN [id |-> str(auth.admin.id), role |-> auth.admin.role,
               email |-> str_email(auth.admin.email)]
         ELSE Raised
    ELSE IF Populated(auth.customer)
         THEN [id |-> str(auth.customer.id), role |-> auth.customer.role,
               realm_id |-> str(auth.customer.realm_id)]
         ELSE Raised

\* Mutant: the admin record takes its id from the context's realm.
get_me_realm_as_id(auth) ==
    IF persona_is(auth, ADMIN)
    THEN IF Populated(auth.admin)
         THEN [id |-> str(auth.realm_id), role |-> auth.admin.role,
               email |-> str_email(auth.admin.email)]
         ELSE Raised
    ELSE IF Populated(auth.customer)
         THEN [id |-> str(auth.customer.id), role |-> auth.customer.role,
               realm_id |-> str(auth.customer.realm_id)]
         ELSE Raised

get_me(auth) ==
    IF persona_is(auth, ADMIN)
    THEN IF Populated(auth.admin)
         THEN [id |-> str(auth.admin.id), role |-> auth.admin.role,
               email |-> str_email(auth.admin.email)]
         ELSE Raised
    ELSE IF Populated(auth.customer)
         THEN [id |-> str(auth.customer.id), role |-> auth.customer.role,
               realm_id |-> str(auth.customer.realm_id)]
         ELSE Raised

\* The dependency each route declares as the default of its auth parameter.
\* Mutant: SYSTEM is listed among the personas of /my-resource.
get_my_resource_auth_with_system == DependsAuthorizedPersona({ADMIN, CUSTOMER, SYSTEM})
\* Mutant: sync_data asks for another scope.
sync_data_auth_other_scope == DependsSystemHasScope("my_service.sync:read")
\* Mutant: sync_data declares the persona dependency of its neighbours.
sync_data_auth_persona == DependsAuthorizedPersona({ADMIN, CUSTOMER})
\* Mutant: /me admits every persona.
get_me_auth_any_persona == DependsAuthorizedPersona(AuthenticationPersona)

get_my_resource_auth == DependsAuthorizedPersona({ADMIN, CUSTOMER})
sync_data_auth == DependsSystemHasScope("my_service.sync:execute")
get_me_auth == DependsAuthorizedPersona({ADMIN, CUSTOMER})

GET_my_resource == "GET /my-resource"
POST_internal_sync == "POST /internal/sync"
GET_me == "GET /me"

\* The route of a request slot that holds no request.
NoRoute == "-"

\* The routes registered on app by the three decorators.
Routes ==
    (GET_my_resource :> [endpoint |-> "get_my_resource", auth |-> get_my_resource_auth])
    @@ (POST_internal_sync :> [endpoint |-> "sync_data", auth |-> sync_data_auth])
    @@ (GET_me :> [endpoint |-> "get_me", auth |-> get_me_auth])

\* ------------------------------------------------------------------ state

VARIABLES
    app,        \* the FastAPI application: its route table
    pc,         \* per request: idle, received, resolved, denied, responded
    route,      \* per request: the route it asks for (NoRoute when idle)
    caller,     \* per request: the principal of its credentials (None: unauthenticated)
    auth,       \* per request: the AuthenticationContext injected into the endpoint
    response    \* per request: the value the endpoint returned (None: none yet)

vars == <<app, pc, route, caller, auth, response>>

Init ==
    /\ app = Routes
    /\ pc = [r \in Requests |-> "idle"]
    /\ route = [r \in Requests |-> NoRoute]
    /\ caller = [r \in Requests |-> None]
    /\ auth = [r \in Requests |-> None]
    /\ response = [r \in Requests |-> None]

\* A request reaches the server.
Receive(r) ==
    /\ pc[r] = "idle"
    /\ \E rt \in DOMAIN app, c \in Callers :
         /\ route' = [route EXCEPT ![r] = rt]
         /\ caller' = [caller EXCEPT ![r] = c]
    /\ pc' = [pc EXCEPT ![r] = "received"]
    /\ UNCHANGED <<app, auth, response>>

\* FastAPI solves the route's dependency before calling the endpoint; a
\* dependency that denies ends the request without calling it.
SolveDependency(r) ==
    /\ pc[r] = "received"
    /\ LET ctx == Resolve(app[route[r]].auth, caller[r])
       IN  /\ auth' = [auth EXCEPT ![r] = ctx]
           /\ pc' = [pc EXCEPT ![r] = IF ctx = None THEN "denied" ELSE "resolved"]
    /\ UNCHANGED <<app, route, caller, response>>

\* The endpoint of the request's route runs with the injected context.
\* Mutant: the endpoint clears its context once it has read it.
Call_get_my_resource_in_place(r) ==
    /\ pc[r] = "resolved"
    /\ app[route[r]].endpoint = "get_my_resource"
    /\ response' = [response EXCEPT ![r] = get_my_resource(auth[r])]
    /\ auth' = [auth EXCEPT ![r] = None]
    /\ pc' = [pc EXCEPT ![r] = "responded"]
    /\ UNCHANGED <<app, route, caller>>

Call_get_my_resource(r) ==
    /\ pc[r] = "resolved"
    /\ app[route[r]].endpoint = "get_my_resource"
    /\ response' = [response EXCEPT ![r] = get_my_resource(auth[r])]
    /\ pc' = [pc EXCEPT ![r] = "responded"]
    /\ UNCHANGED <<app, route, caller, auth>>

\* Mutant: the context is kept in one place shared by the requests in flight.
Call_sync_data_shared_context(r) ==
    /\ pc[r] = "resolved"
    /\ app[route[r]].endpoint = "sync_data"
    /\ \E q \in Requests :
         /\ pc[q] = "resolved"
         /\ response' = [response EXCEPT ![r] = sync_data(auth[q])]
    /\ pc' = [pc EXCEPT ![r] = "responded"]
    /\ UNCHANGED <<app, route, caller, auth>>

Call_sync_data(r) ==
    /\ pc[r] = "resolved"
    /\ app[route[r]].endpoint = "sync_data"
    /\ response' = [response EXCEPT ![r] = sync_data(auth[r])]
    /\ pc' = [pc EXCEPT ![r] = "responded"]
    /\ UNCHANGED <<app, route, caller, auth>>

\* Mutant: the endpoint does not wait for its dependency.
Call_get_me_unguarded(r) ==
    /\ pc[r] \in {"received", "resolved"}
    /\ app[route[r]].endpoint = "get_me"
    /\ caller[r] # None
    /\ response' = [response EXCEPT ![r] = get_me(caller[r])]
    /\ pc' = [pc EXCEPT ![r] = "responded"]
    /\ UNCHANGED <<app, route, caller, auth>>

Call_get_me(r) ==
    /\ pc[r] = "resolved"
    /\ app[route[r]].endpoint = "get_me"
    /\ response' = [response EXCEPT ![r] = get_me(auth[r])]
    /\ pc' = [pc EXCEPT ![r] = "responded"]
    /\ UNCHANGED <<app, route, caller, auth>>

\* The outcome has been sent; the per-request values are dropped.
Finish(r) ==
    /\ pc[r] \in {"denied", "responded"}
    /\ pc' = [pc EXCEPT ![r] = "idle"]
    /\ route' = [route EXCEPT ![r] = NoRoute]
    /\ caller' = [caller EXCEPT ![r] = None]
    /\ auth' = [auth EXCEPT ![r] = None]
    /\ response' = [response EXCEPT ![r] = None]
    /\ UNCHANGED app

Next ==
    \E r \in Requests :
        \/ Receive(r)
        \/ SolveDependency(r)
        \/ Call_get_my_resource(r)
        \/ Call_sync_data(r)
        \/ Call_get_me(r)
        \/ Finish(r)

Spec == Init /\ [][Next]_vars

\* ----------------------------------------------------------- properties

Gated(r) == pc[r] \in {"resolved", "responded"}
PersonaRoute(r) == route[r] \in {GET_my_resource, GET_me}

\* C1: on GET /my-resource and GET /me the endpoint runs exactly for callers
\* whose authenticated persona is ADMIN or CUSTOMER; every other caller,
\* and the unauthenticated one, is denied and gets no endpoint response.
C1_PersonaGate ==
    \A r \in Requests :
        (pc[r] \in {"resolved", "denied", "responded"} /\ PersonaRoute(r)) =>
           /\ Gated(r) <=> (caller[r] # None /\ caller[r].persona \in {"ADMIN", "CUSTOMER"})
           /\ pc[r] = "denied" => response[r] = None

C1_Witness ==
    \E r1, r2 \in Requests :
        /\ route[r1] = GET_my_resource /\ pc[r1] = "responded"
        /\ caller[r1].persona = "CUSTOMER"
        /\ route[r2] = GET_me /\ pc[r2] = "denied"
        /\ caller[r2] # None /\ caller[r2].persona = "SYSTEM"

\* C2: on POST /internal/sync the endpoint runs only for a system principal
\* holding the scope my_service.sync:execute; ADMIN and CUSTOMER callers and
\* system principals without that scope are denied.
C2_ScopeGate ==
    \A r \in Requests :
        (pc[r] \in {"resolved", "denied", "responded"} /\ route[r] = POST_internal_sync) =>
           /\ Gated(r) => /\ caller[r] # None
                          /\ caller[r].persona = "SYSTEM"
                          /\ "my_service.sync:execute" \in caller[r].scopes
           /\ (caller[r] # None /\ caller[r].persona \in {"ADMIN", "CUSTOMER"})
                 => (pc[r] = "denied" /\ response[r] = None)
           /\ (caller[r] # None /\ "my_service.sync:execute" \notin caller[r].scopes)
                 => (pc[r] = "denied" /\ response[r] = None)

C2_Witness ==
    \E r1, r2 \in Requests :
        /\ route[r1] = POST_internal_sync /\ pc[r1] = "responded"
        /\ route[r2] = POST_internal_sync /\ pc[r2] = "denied"
        /\ caller[r2] # None /\ caller[r2].persona = "ADMIN"
        /\ "my_service.sync:execute" \in caller[r2].scopes

\* C3: GET /me answers an ADMIN context with exactly id, role, email of
\* auth.admin and a CUSTOMER context with exactly id, role, realm_id of
\* auth.customer.
C3_MeShape ==
    \A r \in Requests :
        (route[r] = GET_me /\ pc[r] = "responded") =>
           /\ auth[r].persona = "ADMIN" =>
                /\ DOMAIN response[r] = {"id", "role", "email"}
                /\ response[r].id = ToString(auth[r].admin.id)
                /\ response[r].role = auth[r].admin.role
                /\ response[r].email = auth[r].admin.email
           /\ auth[r].persona = "CUSTOMER" =>
                /\ DOMAIN response[r] = {"id", "role", "realm_id"}
                /\ response[r].id = ToString(auth[r].customer.id)
                /\ response[r].role = auth[r].customer.role
                /\ response[r].realm_id = ToString(auth[r].customer.realm_id)

C3_Witness ==
    \E r1, r2 \in Requests :
        /\ route[r1] = GET_me /\ pc[r1] = "responded" /\ auth[r1].persona = "ADMIN"
        /\ route[r2] = GET_me /\ pc[r2] = "responded" /\ auth[r2].persona = "CUSTOMER"
        /\ auth[r2].customer.id # auth[r2].customer.realm_id

\* C4: GET /my-resource answers exactly realm_id (the string form of the
\* context's realm id) and persona; POST /internal/sync answers exactly
\* system_id (the string form of the context's system id); each from the
\* context resolved for that request.
C4_Echo ==
    \A r \in Requests :
        pc[r] = "responded" =>
           /\ route[r] = GET_my_resource =>
                /\ DOMAIN response[r] = {"realm_id", "persona"}
                /\ response[r].realm_id = ToString(auth[r].realm_id)
                /\ response[r].persona = auth[r].persona
           /\ route[r] = POST_internal_sync =>
                /\ DOMAIN response[r] = {"system_id"}
                /\ response[r].system_id = ToString(auth[r].system.id)

C4_Witness ==
    \E r1, r2 \in Requests :
        /\ route[r1] = GET_my_resource /\ pc[r1] = "responded"
        /\ auth[r1].persona = "ADMIN" /\ auth[r1].realm_id # auth[r1].admin.id
        /\ route[r2] = POST_internal_sync /\ pc[r2] = "responded"
        /\ auth[r2].system.id # auth[r2].realm_id

\* C5: the step in which an endpoint runs leaves every context, the
\* application and everything belonging to other requests as they were.
C5_ReadOnly ==
    [][\A r \in Requests :
          (pc[r] = "resolved" /\ pc'[r] = "responded") =>
             /\ auth' = auth
             /\ app' = app
             /\ route' = route
             /\ caller' = caller
             /\ \A q \in Requests \ {r} : response'[q] = response[q] /\ pc'[q] = pc[q]]_vars

C5_Witness ==
    \E r1, r2 \in Requests :
        /\ r1 # r2
        /\ pc[r1] = "responded" /\ auth[r1] = caller[r1]
        /\ pc[r2] = "resolved" /\ auth[r2] = caller[r2]

\* The outcome of a request handled alone.
C6_Endpoint(name, ctx) ==
    CASE name = "get_my_resource" -> get_my_resource(ctx)
      [] name = "sync_data" -> sync_data(ctx)
      [] name = "get_me" -> get_me(ctx)

\* C6: whatever else is in flight, a request is denied exactly when its own
\* caller is denied alone, and otherwise gets the context and the response
\* its own caller gets alone.
C6_Independent ==
    \A r \in Requests :
        pc[r] \in {"resolved", "denied", "responded"} =>
           LET alone == Resolve(Routes[route[r]].auth, caller[r])
           IN  /\ auth[r] = alone
               /\ pc[r] = "denied" <=> alone = None
               /\ pc[r] = "responded" =>
                     response[r] = C6_Endpoint(Routes[route[r]].endpoint, alone)

C6_Witness ==
    \E r1, r2 \in Requests :
        /\ route[r1] = POST_internal_sync /\ pc[r1] = "responded"
        /\ route[r2] = POST_internal_sync /\ pc[r2] = "resolved"
        /\ auth[r1].system.id # auth[r2].system.id

\* C7: whenever get_me may run or has run, a context that is not ADMIN is
\* CUSTOMER with its customer populated and an ADMIN context has its admin
\* populated; get_me never raises on an unpopulated sub-entity.
C7_MeBranches ==
    \A r \in Requests :
        (route[r] = GET_me /\ Gated(r)) =>
           /\ auth[r].persona # "ADMIN" =>
                (auth[r].persona = "CUSTOMER" /\ auth[r].customer # None)
           /\ auth[r].persona = "ADMIN" => auth[r].admin # None
           /\ pc[r] = "responded" => response[r] # Raised

C7_Witness ==
    \E r \in Requests :
        /\ route[r] = GET_me /\ pc[r] = "responded"
        /\ auth[r].persona # "ADMIN"
        /\ "realm_id" \in DOMAIN response[r]

\* C8: whenever sync_data may run or has run, the context is a SYSTEM
\* context whose system sub-entity, and no other, is populated; reading
\* auth.system.id never raises.
C8_SyncSystem ==
    \A r \in Requests :
        (route[r] = POST_internal_sync /\ Gated(r)) =>
           /\ auth[r].persona = "SYSTEM"
           /\ auth[r].system # None
           /\ auth[r].admin = None /\ auth[r].customer = None
           /\ pc[r] = "responded" => response[r] # Raised

C8_Witness ==
    \E r \in Requests :
        /\ route[r] = POST_internal_sync /\ pc[r] = "responded"
        /\ "system_id" \in DOMAIN response[r]

\* C9: an endpoint's return value appears only in a step taken after the
\* request's dependency was solved successfully, and a denied request never
\* has one.
C9_GateFirst ==
    /\ [](\A r \in Requests :
             /\ response[r] # None => (pc[r] = "responded" /\ auth[r] # None)
             /\ pc[r] = "denied" => (response[r] = None /\ auth[r] = None))
    /\ [][\A r \in Requests :
             (response[r] = None /\ response'[r] # None) =>
                /\ pc[r] = "resolved"
                /\ auth[r] # None
                /\ auth[r] = Resolve(app[route[r]].auth, caller[r])]_vars

C9_Witness ==
    \E r1, r2 \in Requests :
        /\ pc[r1] = "responded" /\ response[r1] # None
        /\ pc[r2] = "denied" /\ response[r2] = None /\ caller[r2] # None

====
